---- MODULE Spec2Model ----
(***************************************************************************)
(* A model of git-log: the listJira pipeline of src/src/commands.js, the   *)
(* helpers of src/src/helpers.js and the report of src/src/formatters.js.  *)
(*                                                                         *)
(* Strings are sequences of one-character strings, so that the regular     *)
(* expression /\w+-\d+/g, String.prototype.split and toUpperCase are       *)
(* computed position by position, as the engine computes them.             *)
(* JS numbers that index strings (lastIndex) keep their 0-based values.    *)
(***************************************************************************)
EXTENDS Integers, Sequences, FiniteSets, TLC

VARIABLES
    args,        \* argv handed to listJira: [url, auth]
    repoOpens,   \* environment: whether Repository.open(repo) succeeds
    history,     \* environment: the commits the rev walk yields
    pc,          \* position of the listJira promise chain
    client,      \* the JiraApi client built by initialiseJiraApi
    commits,     \* value getCommitsUntil resolved to
    err,         \* rejection reason travelling down the chain
    filtered,    \* value of filterMissingJiras
    jiraMap,     \* value of mapCommitsToJiras (mutated in place by the sort)
    received,    \* history: the mapping as aggregateJiraMetadata received it
    requests,    \* findIssue calls issued, in order
    fetch,       \* per issued lookup: what findIssue did (response) and what
                 \* fetchJiraMetadata resolved to (result)
    jiraList,    \* the accumulating list of aggregateJiraMetadata
    aggState,    \* state of the promise aggregateJiraMetadata returns
    reportArg,   \* argument generateJiraTermTable received
    stdout,      \* console.log lines, in order
    uncaught     \* error that left the chain unhandled

vars == <<args, repoOpens, history, pc, client, commits, err, filtered,
          jiraMap, received, requests, fetch, jiraList, aggState, reportArg,
          stdout, uncaught>>

---------------------------------------------------------------------------
(* Bounds of the model *)

MaxHistory == 3     \* commits the rev walk yields (pipeline)
MaxUnit == 3        \* commits handed to a helper called on its own
MaxAuthLen == 4     \* characters of the --auth value

---------------------------------------------------------------------------
(* Characters and the regular expression /\w+-\d+/g *)

Digits == {"1", "2"}
WordChars == {"a", "b", "A", "B", "_"} \cup Digits

\* String.prototype.toUpperCase, per character
UpperChar(c) ==
    CASE c = "a" -> "A"
      [] c = "b" -> "B"
      [] OTHER -> c

\* the code with jira.toUpperCase() left out
keepCase(s) == s

toUpperCase(s) == [i \in 1..Len(s) |-> UpperChar(s[i])]

\* first position >= i (1-based) of s that is not in class, Len(s)+1 if none:
\* where a greedy + over the class stops
RECURSIVE RunEnd(_, _, _)
RunEnd(s, i, class) ==
    IF i > Len(s) \/ s[i] \notin class THEN i ELSE RunEnd(s, i + 1, class)

\* /\w+-\d+/ anchored at position i (1-based): the position after the match,
\* or 0 when there is none.  \w+ is greedy; a shorter \w+ is followed by a
\* word character, never by the hyphen, so backtracking finds nothing more.
MatchAt(s, i) ==
    IF i > Len(s) \/ s[i] \notin WordChars
    THEN 0
    ELSE LET j == RunEnd(s, i, WordChars)
         IN  IF j + 1 <= Len(s) /\ s[j] = "-" /\ s[j + 1] \in Digits
             THEN RunEnd(s, j + 1, Digits)
             ELSE 0

\* RegExpBuiltinExec of a global regex: search from lastIndex (0-based);
\* on success lastIndex becomes the end of the match, on failure 0.
RegExpExec(s, lastIndex) ==
    LET starts == {i \in (lastIndex + 1)..Len(s) : MatchAt(s, i) # 0}
    IN  IF lastIndex > Len(s) \/ starts = {}
        THEN [ok |-> FALSE, index |-> 0, lastIndex |-> 0]
        ELSE LET i == CHOOSE m \in starts : \A n \in starts : m <= n
             IN  [ok |-> TRUE, index |-> i - 1, lastIndex |-> MatchAt(s, i) - 1]

\* summary.match(/\w+-\d+/g): every match, scanning left to right from 0.
\* The empty sequence stands for the null the engine returns on no match.
RECURSIVE MatchFrom(_, _)
MatchFrom(s, lastIndex) ==
    LET r == RegExpExec(s, lastIndex)
    IN  IF r.ok
        THEN <<SubSeq(s, r.index + 1, r.lastIndex)>>
                 \o MatchFrom(s, r.lastIndex)
        ELSE <<>>

StringMatchAll(s) == MatchFrom(s, 0)

---------------------------------------------------------------------------
(* helpers.js: filterMissingJiras, mapCommitsToJiras *)

\* commits.filter(commit => regex.test(commit.summary)) with ONE regex object
\* for the whole filter: its lastIndex is carried from one commit to the next.
RECURSIVE FilterFrom(_, _, _)
FilterFrom(cs, k, lastIndex) ==
    IF k > Len(cs)
    THEN <<>>
    ELSE LET r == RegExpExec(cs[k].summary, lastIndex)
         IN  (IF r.ok THEN <<cs[k]>> ELSE <<>>)
                 \o FilterFrom(cs, k + 1, r.lastIndex)

filterMissingJiras(cs) == FilterFrom(cs, 1, 0)

\* jiraMap[code] (created when missing) .push(commit).  The object is a
\* sequence of [code, commits] entries in key insertion order.
PushCommit(map, code, commit) ==
    IF \E k \in 1..Len(map) : map[k].code = code
    THEN [k \in 1..Len(map) |->
            IF map[k].code = code
            THEN [map[k] EXCEPT !.commits = Append(@, commit)]
            ELSE map[k]]
    ELSE Append(map, [code |-> code, commits |-> <<commit>>])

\* jiras.forEach(jira => ... jira.toUpperCase() ... push)
RECURSIVE PushJiras(_, _, _, _)
PushJiras(map, jiras, k, commit) ==
    IF k > Len(jiras)
    THEN map
    ELSE PushJiras(PushCommit(map, toUpperCase(jiras[k]), commit),
                   jiras, k + 1, commit)

RECURSIVE MapFrom(_, _, _)
MapFrom(map, cs, k) ==
    IF k > Len(cs)
    THEN map
    ELSE MapFrom(PushJiras(map, StringMatchAll(cs[k].summary), 1, cs[k]),
                 cs, k + 1)

mapCommitsToJiras(cs) == MapFrom(<<>>, cs, 1)

---------------------------------------------------------------------------
(* commands.js / helpers.js: String.prototype.split and initialiseJiraApi *)

\* whether sep occurs in s at position i (1-based)
OccursAt(s, sep, i) ==
    /\ i + Len(sep) - 1 <= Len(s)
    /\ \A k \in 1..Len(sep) : s[i + k - 1] = sep[k]

\* s.split(sep) for a non-empty separator: cut at EVERY occurrence
RECURSIVE SplitFrom(_, _, _, _)
SplitFrom(s, sep, i, cur) ==
    IF i > Len(s)
    THEN <<cur>>
    ELSE IF OccursAt(s, sep, i)
         THEN <<cur>> \o SplitFrom(s, sep, i + Len(sep), <<>>)
         ELSE SplitFrom(s, sep, i + 1, Append(cur, s[i]))

Split(s, sep) == SplitFrom(s, sep, 1, <<>>)

\* array[k] with a 0-based k: undefined past the end
At(array, k) ==
    IF k + 1 <= Len(array)
    THEN [defined |-> TRUE, value |-> array[k + 1]]
    ELSE [defined |-> FALSE, value |-> <<>>]

\* const authSplit = auth.split(':')
authSplit(auth) == Split(auth, <<":">>)

initialiseJiraApi(host, username, password) ==
    LET hostSplit == Split(host, <<":", "/", "/">>)
    IN  [protocol |-> At(hostSplit, 0),
         apiVersion |-> "2",
         strictSSL |-> TRUE,
         host |-> At(hostSplit, 1),
         username |-> username,
         password |-> password]

---------------------------------------------------------------------------
(* helpers.js: fetchJiraMetadata and the callback of aggregateJiraMetadata *)

\* array.join(', '): the elements with the separator between them
RECURSIVE Join(_, _)
Join(xs, sep) ==
    IF Len(xs) = 0 THEN <<>>
    ELSE IF Len(xs) = 1 THEN <<xs[1]>>
    ELSE <<xs[1], sep>> \o Join(Tail(xs), sep)

\* what client.findIssue(code) can settle to
Rejected == [kind |-> "reject", summary |-> "", status |-> "",
             fixVersions |-> <<>>, assignee |-> "", hasAssignee |-> FALSE]
Malformed == [kind |-> "malformed", summary |-> "", status |-> "",
              fixVersions |-> <<>>, assignee |-> "", hasAssignee |-> FALSE]
Issues ==
    { [kind |-> "issue", summary |-> "T1", status |-> "Open",
       fixVersions |-> <<>>, assignee |-> "Zoe", hasAssignee |-> TRUE] }
Responses == {Rejected, Malformed} \cup Issues

Null == [isNull |-> TRUE, title |-> "", status |-> "",
         fixVersions |-> <<>>, assignee |-> ""]

\* the code with .catch(() => ({})): a failed lookup becomes an empty,
\* truthy object
catchAsEmptyObject(response) ==
    IF response.kind = "issue"
    THEN [isNull |-> FALSE,
          title |-> response.summary,
          status |-> response.status,
          fixVersions |->
              IF Join(response.fixVersions, ", ") # <<>>
              THEN Join(response.fixVersions, ", ")
              ELSE <<"No Fix Version">>,
          assignee |->
              IF response.hasAssignee THEN response.assignee
              ELSE "Unassigned"]
    ELSE [Null EXCEPT !.isNull = FALSE]

\* findIssue(code).then(issue => ({...})).catch(() => null): a rejection,
\* and a TypeError thrown while reading a malformed issue, both become null
fetchJiraMetadata(response) ==
    IF response.kind = "issue"
    THEN [isNull |-> FALSE,
          title |-> response.summary,
          status |-> response.status,
          fixVersions |->
              IF Join(response.fixVersions, ", ") # <<>>
              THEN Join(response.fixVersions, ", ")
              ELSE <<"No Fix Version">>,
          assignee |->
              IF response.hasAssignee THEN response.assignee
              ELSE "Unassigned"]
    ELSE Null

\* the code with the comparator (a, b) => a.date - b.date
compareDatesAscending(a, b) == a.date - b.date

\* (a, b) => b.date - a.date
compareDates(a, b) == b.date - a.date

\* Array.prototype.sort is stable: x, which followed the elements of sorted
\* in the array, goes before the first one the comparator puts after it
InsertSorted(sorted, x) ==
    LET later == {p \in 1..Len(sorted) : compareDates(sorted[p], x) > 0}
    IN  IF later = {}
        THEN Append(sorted, x)
        ELSE LET p == CHOOSE m \in later : \A n \in later : m <= n
             IN  SubSeq(sorted, 1, p - 1) \o <<x>>
                     \o SubSeq(sorted, p, Len(sorted))

RECURSIVE SortFrom(_, _, _)
SortFrom(sorted, list, k) ==
    IF k > Len(list) THEN sorted
    ELSE SortFrom(InsertSorted(sorted, list[k]), list, k + 1)

\* commitList.sort((a, b) => b.date - a.date)
sortCommitList(commitList) == SortFrom(<<>>, commitList, 1)

\* the code with [...xs], the Set left out
spreadWithoutSet(seen, xs, k) == xs

\* [...new Set(xs)]: the first occurrence of each value, in order
RECURSIVE SetSpread(_, _, _)
SetSpread(seen, xs, k) ==
    IF k > Len(xs) THEN seen
    ELSE SetSpread(IF \E i \in 1..Len(seen) : seen[i] = xs[k]
                   THEN seen ELSE Append(seen, xs[k]),
                   xs, k + 1)

\* [...new Set(commitList.map(commit => commit.author))].join(', ')
developersOf(commitList) ==
    Join(SetSpread(<<>>,
                   [i \in 1..Len(commitList) |-> commitList[i].author], 1),
         ", ")

\* the object pushed on jiraList; commitList is already sorted in place
jiraRecord(code, commitList, jira) ==
    [code |-> code,
     lastCommitDate |-> commitList[1].date,
     developers |-> developersOf(commitList),
     commits |-> Len(commitList),
     title |-> jira.title,
     status |-> jira.status,
     fixVersions |-> jira.fixVersions,
     assignee |-> jira.assignee]

\* the code with the test if (jira) left out
pushesAlways(jira) == TRUE

\* if (jira) { ... }: whether the callback pushes a record
pushesRecord(jira) == ~jira.isNull

\* the code with Promise.race in the place of Promise.all
anySettled(f) == \E k \in 1..Len(f) : f[k].result # "pending"

\* Promise.all over the lookups: fulfilled once none is pending
allSettled(f) == \A k \in 1..Len(f) : f[k].result # "pending"

---------------------------------------------------------------------------
(* Inputs *)

Dates == {1, 2}
Authors == {"ann", "bob"}

\* summaries of the commits the rev walk yields: "a-1", "b-2 A-1", "ab"
Summaries ==
    { <<"a", "-", "1">>,
      <<"b", "-", "2", " ", "A", "-", "1">>,
      <<"a", "b">> }

\* summaries handed to a helper called on its own
UnitSummaries ==
    { <<"a", "-", "1">>,
      <<"A", "-", "1">>,
      <<" ", "b", "-", "2">>,
      <<"a", "-", "1", " ", "b", "-", "2">>,
      <<"a", "-", "1", "a", "-", "1">>,
      <<"a", "b">>,
      <<"a", "-", "b">>,
      <<>> }

Urls == { <<"h", ":", "/", "/", "j">>, <<"j">> }
SeqsUpTo(S, n) == UNION {[1..m -> S] : m \in 0..n}

Auths == SeqsUpTo({"u", "p", ":"}, MaxAuthLen)

\* commits.map(commit => ({date, author, summary})): one fresh object per
\* commit of the walk; id stands for the object's identity
commitObjects(walk) ==
    [k \in 1..Len(walk) |->
        [id |-> k, date |-> walk[k].date, author |-> walk[k].author,
         summary |-> walk[k].summary]]

NoError == [thrown |-> FALSE, message |-> ""]
NoClient == initialiseJiraApi(<<>>, At(<<>>, 0), At(<<>>, 0))

Idle ==
    /\ client = NoClient
    /\ err = NoError
    /\ filtered = <<>>
    /\ jiraMap = <<>>
    /\ received = <<>>
    /\ requests = <<>>
    /\ fetch = <<>>
    /\ jiraList = <<>>
    /\ aggState = "none"
    /\ reportArg = [called |-> FALSE, defined |-> FALSE, list |-> <<>>]
    /\ stdout = <<>>
    /\ uncaught = "none"

\* one run of listJira over every history of at most MaxHistory commits
Init ==
    /\ args = [url |-> <<"h", ":", "/", "/", "j">>, auth |-> <<"u", ":", "p">>]
    /\ repoOpens \in BOOLEAN
    /\ history \in SeqsUpTo([date : Dates, author : Authors,
                             summary : Summaries], MaxHistory)
    /\ (~repoOpens => history = <<>>)
    /\ pc = "start"
    /\ commits = <<>>
    /\ Idle

---------------------------------------------------------------------------
(* commands.js: the promise chain of listJira *)

\* lines 13-16: split the credentials, build the client, start the walk
ListJira ==
    /\ pc = "start"
    /\ client' = initialiseJiraApi(args.url, At(authSplit(args.auth), 0),
                                   At(authSplit(args.auth), 1))
    /\ pc' = "opening"
    /\ UNCHANGED received
    /\ UNCHANGED <<args, repoOpens, history, commits, err, filtered, jiraMap,
                   requests, fetch, jiraList, aggState, reportArg, stdout,
                   uncaught>>

\* getCommitsUntil: Repository.open rejects
RepositoryOpenFails ==
    /\ pc = "opening"
    /\ ~repoOpens
    /\ err' = [thrown |-> TRUE, message |-> "could not open repository"]
    /\ pc' = "rejected"
    /\ UNCHANGED received
    /\ UNCHANGED <<args, repoOpens, history, client, commits, filtered,
                   jiraMap, requests, fetch, jiraList, aggState, reportArg,
                   stdout, uncaught>>

\* getCommitsUntil: commits.length === 0 throws
WalkYieldsNone ==
    /\ pc = "opening"
    /\ repoOpens
    /\ Len(history) = 0
    /\ err' = [thrown |-> TRUE,
               message |-> "Current repo does not exist or contains no commits"]
    /\ pc' = "rejected"
    /\ UNCHANGED received
    /\ UNCHANGED <<args, repoOpens, history, client, commits, filtered,
                   jiraMap, requests, fetch, jiraList, aggState, reportArg,
                   stdout, uncaught>>

\* getCommitsUntil resolves to the commit objects
WalkYieldsCommits ==
    /\ pc = "opening"
    /\ repoOpens
    /\ Len(history) # 0
    /\ commits' = commitObjects(history)
    /\ pc' = "commits"
    /\ UNCHANGED received
    /\ UNCHANGED <<args, repoOpens, history, client, err, filtered, jiraMap,
                   requests, fetch, jiraList, aggState, reportArg, stdout,
                   uncaught>>

\* .then(commits => filterMissingJiras(commits))
Filter ==
    /\ pc = "commits"
    /\ filtered' = filterMissingJiras(commits)
    /\ pc' = "filtered"
    /\ UNCHANGED received
    /\ UNCHANGED <<args, repoOpens, history, client, commits, err, jiraMap,
                   requests, fetch, jiraList, aggState, reportArg, stdout,
                   uncaught>>

\* .then(commits => mapCommitsToJiras(commits))
Map ==
    /\ pc = "filtered"
    /\ jiraMap' = mapCommitsToJiras(filtered)
    /\ pc' = "mapped"
    /\ UNCHANGED received
    /\ UNCHANGED <<args, repoOpens, history, client, commits, err, filtered,
                   requests, fetch, jiraList, aggState, reportArg, stdout,
                   uncaught>>

\* aggregateJiraMetadata, the synchronous part: one fetchJiraMetadata, hence
\* one findIssue, per key of the mapping, in key order
Aggregate ==
    /\ pc = "mapped"
    /\ requests' = [k \in 1..Len(jiraMap) |-> jiraMap[k].code]
    /\ fetch' = [k \in 1..Len(jiraMap) |->
                    [response |-> "none", result |-> "pending"]]
    /\ jiraList' = <<>>
    /\ aggState' = "pending"
    /\ received' = jiraMap
    /\ pc' = "aggregating"
    /\ UNCHANGED <<args, repoOpens, history, client, commits, err, filtered,
                   jiraMap, reportArg, stdout, uncaught>>

\* the lookup of the k-th key settles and its .then callback runs
FetchSettles(k, response) ==
    /\ pc = "aggregating"
    /\ k \in 1..Len(fetch)
    /\ fetch[k].result = "pending"
    /\ LET jira == fetchJiraMetadata(response)
           commitList == sortCommitList(jiraMap[k].commits)
       IN  IF pushesRecord(jira)
           THEN /\ jiraMap' = [jiraMap EXCEPT ![k].commits = commitList]
                /\ jiraList' = Append(jiraList,
                                      jiraRecord(requests[k], commitList, jira))
                /\ fetch' = [fetch EXCEPT ![k] = [response |-> response.kind,
                                                   result |-> "metadata"]]
           ELSE /\ fetch' = [fetch EXCEPT ![k] = [response |-> response.kind,
                                                   result |-> "null"]]
                /\ UNCHANGED <<jiraMap, jiraList>>
    /\ UNCHANGED received
    /\ UNCHANGED <<args, repoOpens, history, pc, client, commits, err,
                   filtered, requests, aggState, reportArg, stdout, uncaught>>

\* Promise.all(...).then(() => resolve(jiraList))
ResolveAggregate ==
    /\ pc = "aggregating"
    /\ aggState = "pending"
    /\ allSettled(fetch)
    /\ aggState' = "resolved"
    /\ pc' = "aggregated"
    /\ UNCHANGED received
    /\ UNCHANGED <<args, repoOpens, history, client, commits, err, filtered,
                   jiraMap, requests, fetch, jiraList, reportArg, stdout,
                   uncaught>>

\* .catch(err => console.log(err.message)): the handler returns undefined
CatchError ==
    /\ pc = "rejected"
    /\ stdout' = Append(stdout, [kind |-> "text", text |-> err.message,
                                 rows |-> <<>>])
    /\ pc' = "caught"
    /\ UNCHANGED received
    /\ UNCHANGED <<args, repoOpens, history, client, commits, err, filtered,
                   jiraMap, requests, fetch, jiraList, aggState, reportArg,
                   uncaught>>

---------------------------------------------------------------------------
(* formatters.js: generateJiraTermTable *)

\* li.lastCommitDate.format('ddd D MMM')
formatDate(date) == <<"ddd D MMM", date>>

tableRow(li) ==
    [code |-> li.code, status |-> li.status, title |-> li.title,
     lastCommit |-> formatDate(li.lastCommitDate),
     developers |-> li.developers, commits |-> li.commits,
     fixVersions |-> li.fixVersions, assignee |-> li.assignee]

\* .then(jiraList => generateJiraTermTable(jiraList)) after a resolved
\* aggregation: the catch handler is skipped
ReportTable ==
    /\ pc = "aggregated"
    /\ reportArg' = [called |-> TRUE, defined |-> TRUE, list |-> jiraList]
    /\ stdout' = Append(stdout,
                        [kind |-> "table", text |-> "",
                         rows |-> [i \in 1..Len(jiraList) |->
                                      tableRow(jiraList[i])]])
    /\ pc' = "done"
    /\ UNCHANGED received
    /\ UNCHANGED <<args, repoOpens, history, client, commits, err, filtered,
                   jiraMap, requests, fetch, jiraList, aggState, uncaught>>

\* the same step after the catch handler: jiraList is undefined, so
\* jiraList.forEach throws before console.log(table.toString()) is reached
ReportUndefined ==
    /\ pc = "caught"
    /\ reportArg' = [called |-> TRUE, defined |-> FALSE, list |-> <<>>]
    /\ uncaught' = "TypeError"
    /\ pc' = "done"
    /\ UNCHANGED received
    /\ UNCHANGED <<args, repoOpens, history, client, commits, err, filtered,
                   jiraMap, requests, fetch, jiraList, aggState, stdout>>

Next ==
    \/ ListJira
    \/ RepositoryOpenFails
    \/ WalkYieldsNone
    \/ WalkYieldsCommits
    \/ Filter
    \/ Map
    \/ Aggregate
    \/ \E k \in 1..Len(fetch) : \E response \in Responses :
           FetchSettles(k, response)
    \/ ResolveAggregate
    \/ CatchError
    \/ ReportTable
    \/ ReportUndefined

Spec == Init /\ [][Next]_vars

\* the fairness the claim about the barrier assumes: every lookup settles,
\* and the event loop runs the continuation of a fulfilled Promise.all.
\* The barrier reads no date and no author, so the histories vary in their
\* summaries alone.
FairInit ==
    /\ args = [url |-> <<"h", ":", "/", "/", "j">>, auth |-> <<"u", ":", "p">>]
    /\ repoOpens \in BOOLEAN
    /\ history \in SeqsUpTo([date : {1}, author : {"ann"},
                             summary : Summaries], MaxHistory)
    /\ (~repoOpens => history = <<>>)
    /\ pc = "start"
    /\ commits = <<>>
    /\ Idle

FairSpec ==
    /\ FairInit
    /\ [][Next]_vars
    /\ WF_vars(\E k \in 1..Len(fetch) : \E response \in Responses :
                   FetchSettles(k, response))
    /\ WF_vars(ResolveAggregate)

---------------------------------------------------------------------------
(* listJira over every --auth value of at most MaxAuthLen characters *)

AuthInit ==
    /\ args \in [url : Urls, auth : Auths]
    /\ repoOpens \in BOOLEAN
    /\ history \in { <<>>,
                     << [date |-> 1, author |-> "ann",
                         summary |-> <<"b", "-", "2", " ", "A", "-", "1">>] >> }
    /\ (~repoOpens => history = <<>>)
    /\ pc = "start"
    /\ commits = <<>>
    /\ Idle

SpecAuth == AuthInit /\ [][Next]_vars

---------------------------------------------------------------------------
(* The exported helpers called on their own, on every sequence of at most  *)
(* MaxUnit commits                                                         *)

UnitInit ==
    /\ args = [url |-> <<"j">>, auth |-> <<>>]
    /\ repoOpens = TRUE
    /\ history = <<>>
    /\ pc = "unit"
    /\ commits \in {commitObjects(w) :
                      w \in SeqsUpTo([date : {1}, author : {"ann"},
                                      summary : UnitSummaries], MaxUnit)}
    /\ Idle

CallFilterMissingJiras ==
    /\ pc = "unit"
    /\ filtered' = filterMissingJiras(commits)
    /\ pc' = "unit_filtered"
    /\ UNCHANGED received
    /\ UNCHANGED <<args, repoOpens, history, client, commits, err, jiraMap,
                   requests, fetch, jiraList, aggState, reportArg, stdout,
                   uncaught>>

CallMapCommitsToJiras ==
    /\ pc = "unit"
    /\ jiraMap' = mapCommitsToJiras(commits)
    /\ pc' = "unit_mapped"
    /\ UNCHANGED received
    /\ UNCHANGED <<args, repoOpens, history, client, commits, err, filtered,
                   requests, fetch, jiraList, aggState, reportArg, stdout,
                   uncaught>>

UnitNext == CallFilterMissingJiras \/ CallMapCommitsToJiras

SpecUnit == UnitInit /\ [][UnitNext]_vars

---------------------------------------------------------------------------
(* What the claims speak of, stated without the operators above *)

\* s[i..k] is <word characters>-<digits>, the hyphen at position j
IsCodeAt(s, i, j, k) ==
    /\ i < j /\ j < k
    /\ \A n \in i..(j - 1) : s[n] \in WordChars
    /\ s[j] = "-"
    /\ \A n \in (j + 1)..k : s[n] \in Digits

\* the summary contains at least one substring matching the code pattern
HasCode(s) ==
    \E i \in 1..Len(s) : \E j \in 1..Len(s) : \E k \in 1..Len(s) :
        IsCodeAt(s, i, j, k)

\* u is m with its lower-case letters capitalised
IsUpperOf(u, m) ==
    /\ Len(u) = Len(m)
    /\ \A n \in 1..Len(m) :
          u[n] = (IF m[n] = "a" THEN "A" ELSE IF m[n] = "b" THEN "B" ELSE m[n])

\* the codes commit c references, one per matching occurrence, in order
CodesOf(c) == StringMatchAll(c.summary)

\* how many occurrences in c's summary have code as their upper-case form
Occurrences(c, code) ==
    Cardinality({n \in 1..Len(CodesOf(c)) : IsUpperOf(code, CodesOf(c)[n])})

\* how many times commit c is in list
CountIn(list, c) == Cardinality({n \in 1..Len(list) : list[n] = c})

\* C1: filterMissingJiras returns, in the original order, exactly the
\* commits whose summary contains a substring matching the code pattern.
C1_FilterKeepsExactlyCoded ==
    pc = "unit_filtered" =>
        filtered = SelectSeq(commits, LAMBDA c : HasCode(c.summary))

\* C8: the keys of mapCommitsToJiras(commits) are the upper-cased matches,
\* each once, in order of first encounter; a key's group holds the commits
\* referencing it in encounter order, once per matching occurrence; a commit
\* without a match is in no group.
C8_MapGroupsByUppercasedCode ==
    pc = "unit_mapped" =>
        /\ \A i \in 1..Len(jiraMap) : \A j \in 1..Len(jiraMap) :
              i # j => jiraMap[i].code # jiraMap[j].code
        /\ \A k \in 1..Len(commits) : \A n \in 1..Len(CodesOf(commits[k])) :
              /\ IsCodeAt(CodesOf(commits[k])[n], 1,
                          CHOOSE j \in 1..Len(CodesOf(commits[k])[n]) :
                              CodesOf(commits[k])[n][j] = "-",
                          Len(CodesOf(commits[k])[n]))
              /\ \E i \in 1..Len(jiraMap) :
                    IsUpperOf(jiraMap[i].code, CodesOf(commits[k])[n])
        /\ \A i \in 1..Len(jiraMap) :
              LET group == jiraMap[i].commits
              IN  /\ Len(group) > 0
                  /\ \A k \in 1..Len(commits) :
                        CountIn(group, commits[k])
                            = Occurrences(commits[k], jiraMap[i].code)
                  /\ \A n \in 1..Len(group) :
                        \E k \in 1..Len(commits) : group[n] = commits[k]
                  /\ \A m \in 1..Len(group) : \A n \in 1..Len(group) :
                        m < n => group[m].id <= group[n].id
        /\ \A i \in 1..Len(jiraMap) : \A j \in 1..Len(jiraMap) :
              i < j =>
                  LET ci == jiraMap[i].commits[1]
                      cj == jiraMap[j].commits[1]
                      first(c, code) ==
                          CHOOSE n \in 1..Len(CodesOf(c)) :
                              /\ IsUpperOf(code, CodesOf(c)[n])
                              /\ \A q \in 1..(n - 1) :
                                    ~IsUpperOf(code, CodesOf(c)[q])
                  IN  \/ ci.id < cj.id
                      \/ /\ ci.id = cj.id
                         /\ first(ci, jiraMap[i].code)
                               < first(cj, jiraMap[j].code)
        /\ \A k \in 1..Len(commits) :
              HasCode(commits[k].summary)
                  <=> \E i \in 1..Len(jiraMap) :
                          CountIn(jiraMap[i].commits, commits[k]) > 0

\* a mapping with two keys, a group reached through a lower-case match, a
\* commit that is twice in one group, and a commit without any code
C8_Witness ==
    /\ pc = "unit_mapped"
    /\ Len(jiraMap) >= 2
    /\ \E i \in 1..Len(jiraMap) : \E k \in 1..Len(commits) :
          /\ CountIn(jiraMap[i].commits, commits[k]) = 2
          /\ \E n \in 1..Len(CodesOf(commits[k])) :
                /\ IsUpperOf(jiraMap[i].code, CodesOf(commits[k])[n])
                /\ jiraMap[i].code # CodesOf(commits[k])[n]
    /\ \E k \in 1..Len(commits) : ~HasCode(commits[k].summary)

\* the position of the first colon of s, 0 when there is none
FirstColon(s) ==
    IF \E i \in 1..Len(s) : s[i] = ":"
    THEN CHOOSE i \in 1..Len(s) :
             s[i] = ":" /\ \A n \in 1..(i - 1) : s[n] # ":"
    ELSE 0

\* C9: for an --auth value with a colon, the client gets the text before
\* the first colon as username and the complete text after it as password.
C9_AuthSplitOnFirstColon ==
    (pc # "start" /\ FirstColon(args.auth) # 0) =>
        /\ client.username
              = [defined |-> TRUE,
                 value |-> SubSeq(args.auth, 1, FirstColon(args.auth) - 1)]
        /\ client.password
              = [defined |-> TRUE,
                 value |-> SubSeq(args.auth, FirstColon(args.auth) + 1,
                                  Len(args.auth))]

---------------------------------------------------------------------------
(* The aggregation *)

\* the mapping as aggregateJiraMetadata received it
InputMap == received

\* the group of code in map
GroupIn(map, code) ==
    map[CHOOSE k \in 1..Len(map) : map[k].code = code].commits

\* the position of code among the keys of the mapping
KeyIndex(code) == CHOOSE k \in 1..Len(requests) : requests[k] = code

Succeeded(k) == fetch[k].response = "issue"
Failed(k) == fetch[k].response \in {"reject", "malformed"}

\* C2: the resolved list has its records in the insertion order of the
\* mapping's keys, whatever the order in which the lookups settled.
C2_ListInKeyInsertionOrder ==
    aggState = "resolved" =>
        \A i \in 1..Len(jiraList) : \A j \in 1..Len(jiraList) :
            i < j => KeyIndex(jiraList[i].code) < KeyIndex(jiraList[j].code)

\* C3: the resolved list holds exactly one record per code whose lookup
\* succeeded and none for a code whose lookup failed (which resolved to
\* null), so its length is the number of successful lookups.
C3_OneRecordPerSuccessfulLookup ==
    aggState = "resolved" =>
        /\ \A k \in 1..Len(fetch) :
              /\ Succeeded(k) \/ Failed(k)
              /\ Succeeded(k) =>
                    Cardinality({i \in 1..Len(jiraList) :
                                    jiraList[i].code = requests[k]}) = 1
              /\ Failed(k) =>
                    /\ fetch[k].result = "null"
                    /\ \A i \in 1..Len(jiraList) :
                          jiraList[i].code # requests[k]
        /\ Len(jiraList) = Cardinality({k \in 1..Len(fetch) : Succeeded(k)})

\* resolved with one lookup that succeeded and one that failed
C3_Witness ==
    /\ aggState = "resolved"
    /\ \E k \in 1..Len(fetch) : Succeeded(k)
    /\ \E k \in 1..Len(fetch) : fetch[k].response = "malformed"

\* C4: after getCommitsUntil failed, listJira has printed the message once,
\* run none of filter, group and lookup, and the report step has completed
\* with a table without rows and without a further error.
C4_FailureEndsWithEmptyTable ==
    (pc = "done" /\ err.thrown) =>
        /\ Cardinality({n \in 1..Len(stdout) :
                           stdout[n].kind = "text"
                               /\ stdout[n].text = err.message}) = 1
        /\ filtered = <<>> /\ jiraMap = <<>> /\ requests = <<>>
        /\ reportArg.called
        /\ uncaught = "none"
        /\ Len(stdout) = 2
        /\ stdout[2].kind = "table"
        /\ stdout[2].rows = <<>>

\* C5: aggregateJiraMetadata issues one lookup per key, resolves only once
\* every lookup has settled, never rejects, and resolves eventually when
\* every lookup settles.
C5_AllCompleteBarrier ==
    /\ [](/\ aggState \in {"none", "pending", "resolved"}
          /\ aggState # "none" =>
                /\ Len(requests) = Len(jiraMap)
                /\ Len(fetch) = Len(jiraMap)
                /\ \A k \in 1..Len(jiraMap) : requests[k] = jiraMap[k].code
          /\ aggState = "resolved" =>
                \A k \in 1..Len(fetch) : fetch[k].result # "pending")
    /\ (aggState = "pending") ~> (aggState = "resolved")

\* resolved after two lookups, one fulfilled and one rejected
C5_Witness ==
    /\ aggState = "resolved"
    /\ Len(fetch) = 2
    /\ \E k \in 1..Len(fetch) : fetch[k].response = "reject"
    /\ \E k \in 1..Len(fetch) : Succeeded(k)

\* the record of the k-th key, which exists when its lookup succeeded
RecordsOf(k) == {i \in 1..Len(jiraList) : jiraList[i].code = requests[k]}

\* C6: the record of a code whose lookup succeeded has as lastCommitDate
\* the maximum date among the commits of the code's group.
C6_LastCommitDateIsMaximum ==
    \A k \in 1..Len(fetch) :
        Succeeded(k) =>
            /\ RecordsOf(k) # {}
            /\ \A i \in RecordsOf(k) :
                  LET group == GroupIn(InputMap, requests[k])
                  IN  /\ \E n \in 1..Len(group) :
                            group[n].date = jiraList[i].lastCommitDate
                      /\ \A n \in 1..Len(group) :
                            group[n].date <= jiraList[i].lastCommitDate

\* a record of a group of two commits whose latest commit is not its first
C6_Witness ==
    \E k \in 1..Len(fetch) :
        /\ Succeeded(k)
        /\ LET group == GroupIn(InputMap, requests[k])
           IN  Len(group) = 2 /\ group[1].date < group[2].date

\* developers lists the distinct authors of group, ", " between them, an
\* author with a later latest commit first and, of two authors whose latest
\* commits have one date, the one whose such commit comes first in group
ListsDevelopers(developers, group) ==
    LET authors == {group[n].author : n \in 1..Len(group)}
        latest(a) ==
            CHOOSE t \in {group[n].date : n \in {m \in 1..Len(group) :
                                                   group[m].author = a}} :
                \A n \in 1..Len(group) :
                    group[n].author = a => group[n].date <= t
        firstAt(a) ==
            CHOOSE n \in 1..Len(group) :
                /\ group[n].author = a /\ group[n].date = latest(a)
                /\ \A m \in 1..(n - 1) :
                      ~(group[m].author = a /\ group[m].date = latest(a))
        before(x, y) ==
            \/ latest(x) > latest(y)
            \/ latest(x) = latest(y) /\ firstAt(x) < firstAt(y)
    IN  /\ Len(developers) = 2 * Cardinality(authors) - 1
        /\ \A n \in 1..Len(developers) :
              IF n % 2 = 0
              THEN developers[n] = ", "
              ELSE developers[n] \in authors
        /\ \A m \in 1..Len(developers) : \A n \in 1..Len(developers) :
              (m % 2 = 1 /\ n % 2 = 1 /\ m < n) =>
                  /\ developers[m] # developers[n]
                  /\ before(developers[m], developers[n])

C10_MappingKeepsItsCommits ==
    aggState = "resolved" =>
        LET input == InputMap
        IN
        /\ Len(jiraMap) = Len(input)
        /\ \A k \in 1..Len(jiraMap) :
              /\ jiraMap[k].code = input[k].code
              /\ Len(jiraMap[k].commits) = Len(input[k].commits)
              /\ \A n \in 1..Len(commits) :
                    CountIn(jiraMap[k].commits, commits[n])
                        = CountIn(input[k].commits, commits[n])
              /\ Failed(k) => jiraMap[k].commits = input[k].commits
              /\ Succeeded(k) =>
                    \A m \in 1..Len(jiraMap[k].commits) :
                        \A n \in 1..Len(jiraMap[k].commits) :
                            m < n => jiraMap[k].commits[m].date
                                        >= jiraMap[k].commits[n].date

\* resolved with the out-of-order group of a failed lookup left as it was
\* and the group of a successful lookup reordered
C10_Witness ==
    /\ aggState = "resolved"
    /\ \E k \in 1..Len(fetch) :
          /\ Failed(k)
          /\ Len(jiraMap[k].commits) = 2
          /\ jiraMap[k].commits[1].date < jiraMap[k].commits[2].date
    /\ \E k \in 1..Len(fetch) :
          /\ Succeeded(k)
          /\ jiraMap[k].commits # InputMap[k].commits

====
